---- MODULE Spec2Model ----
(***************************************************************************)
(* A model of src/core/Database.cpp (KeePassX): the Database aggregate     *)
(* with its key manager, change notifier (debounce timer), tombstone       *)
(* ledger, recycle policy over the Group/Entry tree and the process-wide   *)
(* identity registry m_uuidMap.                                            *)
(*                                                                         *)
(* Group, Entry, Metadata, Uuid, Random and CompositeKey are classes of    *)
(* the repository whose code is not part of Database.cpp; the operators    *)
(* that stand for them follow the specification's description of them.     *)
(***************************************************************************)
EXTENDS Integers, Sequences, FiniteSets, TLC

(***************************************************************************)
(* Bounds of the model.                                                    *)
(***************************************************************************)
\* the clock runs from 0 to MaxTime
MaxTime == 300
\* the event loop lets time pass in steps of TickUnit (or up to a deadline)
TickUnit == 50
\* composite keys 1..NumKeys
NumKeys == 2
\* seeds 1..NumSeeds (values of Random::randomArray(32) and caller's seeds)
NumSeeds == 2
\* round counts a caller passes besides the default: 1..MaxRoundsArg
MaxRoundsArg == 1
\* Group objects 1..MaxGroups and Entry objects 1..MaxEntries may be allocated
MaxGroups == 3
MaxEntries == 2
\* identities 1..NumUuids (values of Uuid::random() and of callers' setUuid)
NumUuids == 2
\* the ledger is followed up to MaxDeletedObjects tombstones
MaxDeletedObjects == 2
\* Database objects 1..MaxDatabases may be constructed
MaxDatabases == 4
\* setCompressionAlgo is called with values up to MaxCompressionArg
MaxCompressionArg == 2

(***************************************************************************)
(* Program constants.                                                      *)
(***************************************************************************)
\* m_timer->start(150)
ModifiedDelay == 150
\* m_transformRounds(50000)
DefaultTransformRounds == 50000
\* a default-constructed CompositeKey / QByteArray (nothing set yet)
EmptyKey == 0
EmptySeed == 0
\* KeePass2::CIPHER_AES and CompressionGZip, the constructor's choices
CIPHER_AES == 1
CompressionGZip == 1
\* Uuid(): the null identity of a Group that was given none
NullUuid == 0
\* the null pointer
Q_NULLPTR == 0

\* CompressionNone, and CompressionAlgorithmMax = CompressionGZip
CompressionNone == 0
CompressionAlgorithmMax == 1

Uuids == 1..NumUuids
CompositeKeys == 1..NumKeys
\* the identities a caller passes to setCipher: a cipher's, or the null identity
CipherArgs == Uuids \cup {NullUuid}
\* the values a caller passes to setCompressionAlgo
CompressionArgs == CompressionNone..MaxCompressionArg
Seeds == 1..NumSeeds
RoundsArgs == {DefaultTransformRounds} \cup (1..MaxRoundsArg)
GroupIds == 1..MaxGroups
EntryIds == 1..MaxEntries
DatabaseIds == 1..MaxDatabases

VARIABLES
    now,                    \* the clock (Tools::currentDateTimeUtc, the timer's time base)
    aborted,                \* the process has ended: a failed Q_ASSERT, a crash
    m_timer,                \* QTimer: [active, deadline]
    m_emitModified,
    m_cipher,
    m_compressionAlgo,
    m_transformRounds,
    m_hasKey,
    m_key,
    m_transformSeed,
    m_transformedMasterKey,
    masterKeyChanged,       \* Metadata::masterKeyChanged()
    tree,                   \* the Group/Entry objects, m_rootGroup and the Metadata's
                            \* recycle bin settings
    m_deletedObjects,       \* the tombstone ledger
    registry,               \* the Database instances and the static m_uuidMap
    lastOp,                 \* observer: the last operation and the signals it emitted
    burst                   \* observer: the current burst of accepted modifiedImmediate events

notifierVars == <<m_timer, m_emitModified, burst>>
keyVars == <<m_cipher, m_compressionAlgo, m_transformRounds, m_hasKey, m_key,
             m_transformSeed, m_transformedMasterKey, masterKeyChanged>>
vars == <<now, aborted, notifierVars, keyVars, tree, m_deletedObjects, registry, lastOp>>

(***************************************************************************)
(* CompositeKey::transform(seed, rounds): a deterministic key derivation;  *)
(* the derived key is the term of its three inputs.                        *)
(***************************************************************************)
transform(key, seed, rounds) == <<key, seed, rounds>>

EmptyByteArray == <<>>

TimerStopped == [active |-> FALSE, deadline |-> 0]

NoBurst == [first |-> 0, last |-> 0, fired |-> 0, firedAt |-> 0, cancelled |-> FALSE,
            open |-> FALSE]

\* result: what the call returned, for the calls whose result the model follows
Op(name, sigs) == [op |-> name, signals |-> sigs, result |-> "void"]

(***************************************************************************)
(* Database::startModifiedTimer: the slot connected to modifiedImmediate.  *)
(* The value of m_timer after the slot has run.                            *)
(***************************************************************************)
startModifiedTimer_keepsRunning ==
    IF ~m_emitModified
    THEN m_timer
    ELSE IF m_timer.active
         THEN m_timer
         ELSE [active |-> TRUE, deadline |-> now + ModifiedDelay]

startModifiedTimer_ignoresFlag ==
    [active |-> TRUE, deadline |-> now + ModifiedDelay]

startModifiedTimer ==
    IF ~m_emitModified
    THEN m_timer
    ELSE [active |-> TRUE, deadline |-> now + ModifiedDelay]

\* The observer's record of the burst after a modifiedImmediate event.
burstAfterImmediate ==
    IF ~m_emitModified
    THEN burst
    ELSE IF m_timer.active
         THEN [burst EXCEPT !.last = now]
         ELSE [first |-> now, last |-> now, fired |-> 0, firedAt |-> 0,
               cancelled |-> FALSE, open |-> TRUE]

\* Q_EMIT modifiedImmediate(): the connected slot runs synchronously.
emitModifiedImmediate ==
    /\ m_timer' = startModifiedTimer
    /\ burst' = burstAfterImmediate
    /\ UNCHANGED m_emitModified

(***************************************************************************)
(* Database::setEmitModified                                               *)
(***************************************************************************)
setEmitModified_noStop(value) ==
    /\ m_timer' = m_timer
    /\ m_emitModified' = value

setEmitModified_retroactive(value) ==
    /\ m_timer' = IF m_emitModified /\ ~value THEN TimerStopped
                  ELSE IF ~m_emitModified /\ value
                       THEN [active |-> TRUE, deadline |-> now + ModifiedDelay]
                       ELSE m_timer
    /\ m_emitModified' = value

setEmitModified(value) ==
    /\ m_timer' = IF m_emitModified /\ ~value THEN TimerStopped ELSE m_timer
    /\ m_emitModified' = value

SetEmitModifiedTo(value) ==
    /\ ~aborted
    /\ setEmitModified(value)
    /\ burst' = IF ~value /\ m_timer.active
                THEN [burst EXCEPT !.cancelled = TRUE]
                ELSE burst
    /\ lastOp' = Op("setEmitModified", <<>>)
    /\ UNCHANGED <<now, aborted, keyVars, tree, m_deletedObjects, registry>>

SetEmitModified == \E value \in BOOLEAN : SetEmitModifiedTo(value)

(***************************************************************************)
(* connect(m_metadata, SIGNAL(modified()), this, SIGNAL(modifiedImmediate())) *)
(* a change of the Metadata raises modifiedImmediate.                      *)
(***************************************************************************)
MetadataModified ==
    /\ ~aborted
    /\ emitModifiedImmediate
    /\ lastOp' = Op("metadataModified", <<"modifiedImmediate">>)
    /\ UNCHANGED <<now, aborted, keyVars, tree, m_deletedObjects, registry>>

(***************************************************************************)
(* The single-shot timer expires: connect(m_timer, SIGNAL(timeout()),      *)
(* SIGNAL(modified())).                                                    *)
(***************************************************************************)
timerAfterTimeout == TimerStopped

TimerTimeout ==
    /\ ~aborted
    /\ m_timer.active
    /\ now = m_timer.deadline
    /\ m_timer' = timerAfterTimeout
    /\ burst' = [burst EXCEPT !.fired = @ + 1, !.firedAt = now]
    /\ lastOp' = Op("timeout", <<"modified">>)
    /\ UNCHANGED <<now, aborted, m_emitModified, keyVars, tree, m_deletedObjects, registry>>

(***************************************************************************)
(* Time passes: by TickUnit, or up to the pending timer's deadline; the    *)
(* event loop fires a due timer before time moves on.                      *)
(***************************************************************************)
TickSteps ==
    {TickUnit} \cup (IF m_timer.active THEN {m_timer.deadline - now} ELSE {})

Tick ==
    /\ ~aborted
    /\ \E d \in TickSteps :
        /\ d > 0
        /\ now + d <= MaxTime
        /\ m_timer.active => now + d <= m_timer.deadline
        /\ now' = now + d
    /\ UNCHANGED <<aborted, notifierVars, keyVars, tree, m_deletedObjects, registry, lastOp>>

(***************************************************************************)
(* Database::setKey(const CompositeKey&, const QByteArray&, bool)          *)
(* rounds is what transformRounds() returns when the call is made.         *)
(***************************************************************************)
setKey_alwaysStamps(key, transformSeed, updateChangedTime, rounds) ==
    /\ m_key' = key
    /\ m_transformSeed' = transformSeed
    /\ m_transformedMasterKey' = transform(key, transformSeed, rounds)
    /\ m_hasKey' = TRUE
    /\ masterKeyChanged' = now
    /\ emitModifiedImmediate

setKey(key, transformSeed, updateChangedTime, rounds) ==
    /\ m_key' = key
    /\ m_transformSeed' = transformSeed
    /\ m_transformedMasterKey' = transform(key, transformSeed, rounds)
    /\ m_hasKey' = TRUE
    /\ masterKeyChanged' = IF updateChangedTime THEN now ELSE masterKeyChanged
    /\ emitModifiedImmediate

SetKeyWithSeedOf(key, seed, updateChangedTime) ==
    /\ ~aborted
    /\ setKey(key, seed, updateChangedTime, m_transformRounds)
    /\ lastOp' = Op("setKey3", <<"modifiedImmediate">>)
    /\ UNCHANGED <<now, aborted, m_cipher, m_compressionAlgo, m_transformRounds, tree, m_deletedObjects, registry>>

SetKeyWithSeed ==
    \E key \in CompositeKeys, seed \in Seeds, updateChangedTime \in BOOLEAN :
        SetKeyWithSeedOf(key, seed, updateChangedTime)

(***************************************************************************)
(* Database::setKey(const CompositeKey&): Random::randomArray(32) is any   *)
(* seed; updateChangedTime takes its default, true.                        *)
(***************************************************************************)
setKeyRandomSeed_keepsSeed(key, rounds) ==
    setKey(key, m_transformSeed, TRUE, rounds)

setKeyRandomSeed(key, rounds) ==
    \E seed \in Seeds : setKey(key, seed, TRUE, rounds)

SetKeyOf(key) ==
    /\ ~aborted
    /\ setKeyRandomSeed(key, m_transformRounds)
    /\ lastOp' = Op("setKey1", <<"modifiedImmediate">>)
    /\ UNCHANGED <<now, aborted, m_cipher, m_compressionAlgo, m_transformRounds, tree, m_deletedObjects, registry>>

SetKey == \E key \in CompositeKeys : SetKeyOf(key)

(***************************************************************************)
(* Database::setTransformRounds                                            *)
(***************************************************************************)
setTransformRounds_noRederive(rounds) ==
    /\ m_transformRounds' = rounds
    /\ UNCHANGED <<m_hasKey, m_key, m_transformSeed, m_transformedMasterKey,
                   masterKeyChanged, notifierVars>>
    /\ lastOp' = Op("setTransformRounds", <<>>)

setTransformRounds_noCompare(rounds) ==
    /\ m_transformRounds' = rounds
    /\ IF m_hasKey
       THEN /\ setKeyRandomSeed(m_key, rounds)
            /\ lastOp' = Op("setTransformRounds", <<"modifiedImmediate">>)
       ELSE /\ UNCHANGED <<m_hasKey, m_key, m_transformSeed,
                           m_transformedMasterKey, masterKeyChanged,
                           notifierVars>>
            /\ lastOp' = Op("setTransformRounds", <<>>)

\* re-derives before the new count is stored
setTransformRounds_rederivesFirst(rounds) ==
    IF m_transformRounds # rounds
    THEN /\ m_transformRounds' = rounds
         /\ IF m_hasKey
            THEN /\ setKeyRandomSeed(m_key, m_transformRounds)
                 /\ lastOp' = Op("setTransformRounds", <<"modifiedImmediate">>)
            ELSE /\ UNCHANGED <<m_hasKey, m_key, m_transformSeed,
                                m_transformedMasterKey, masterKeyChanged,
                                notifierVars>>
                 /\ lastOp' = Op("setTransformRounds", <<>>)
    ELSE /\ UNCHANGED <<m_transformRounds, m_hasKey, m_key, m_transformSeed,
                        m_transformedMasterKey, masterKeyChanged, notifierVars>>
         /\ lastOp' = Op("setTransformRounds", <<>>)

\* re-derives whether a key is set or not
setTransformRounds_ignoresHasKey(rounds) ==
    IF m_transformRounds # rounds
    THEN /\ m_transformRounds' = rounds
         /\ setKeyRandomSeed(m_key, rounds)
         /\ lastOp' = Op("setTransformRounds", <<"modifiedImmediate">>)
    ELSE /\ UNCHANGED <<m_transformRounds, m_hasKey, m_key, m_transformSeed,
                        m_transformedMasterKey, masterKeyChanged, notifierVars>>
         /\ lastOp' = Op("setTransformRounds", <<>>)

setTransformRounds(rounds) ==
    IF m_transformRounds # rounds
    THEN /\ m_transformRounds' = rounds
         /\ IF m_hasKey
            THEN /\ setKeyRandomSeed(m_key, rounds)
                 /\ lastOp' = Op("setTransformRounds", <<"modifiedImmediate">>)
            ELSE /\ UNCHANGED <<m_hasKey, m_key, m_transformSeed,
                                m_transformedMasterKey, masterKeyChanged,
                                notifierVars>>
                 /\ lastOp' = Op("setTransformRounds", <<>>)
    ELSE /\ UNCHANGED <<m_transformRounds, m_hasKey, m_key, m_transformSeed,
                        m_transformedMasterKey, masterKeyChanged, notifierVars>>
         /\ lastOp' = Op("setTransformRounds", <<>>)

SetTransformRoundsTo(rounds) ==
    /\ ~aborted
    /\ setTransformRounds(rounds)
    /\ UNCHANGED <<now, aborted, m_cipher, m_compressionAlgo, tree, m_deletedObjects, registry>>

SetTransformRounds == \E rounds \in RoundsArgs : SetTransformRoundsTo(rounds)

(***************************************************************************)
(* Database::setCipher and Database::setCompressionAlgo: the values the    *)
(* member can have after the call, and whether the process goes on.        *)
(* Q_ASSERT ends the process in a debug build and is compiled out of a     *)
(* release build.                                                          *)
(***************************************************************************)
setCipher(cipher) ==
    IF cipher # NullUuid
    THEN {[t |-> cipher, crashed |-> FALSE]}
    ELSE {[t |-> m_cipher, crashed |-> TRUE], [t |-> cipher, crashed |-> FALSE]}

SetCipherTo(cipher) ==
    /\ ~aborted
    /\ \E o \in setCipher(cipher) :
        /\ m_cipher' = o.t
        /\ aborted' = o.crashed
    /\ lastOp' = Op("setCipher", <<>>)
    /\ UNCHANGED <<now, notifierVars, m_compressionAlgo, m_transformRounds, m_hasKey,
                   m_key, m_transformSeed, m_transformedMasterKey, masterKeyChanged,
                   tree, m_deletedObjects, registry>>

SetCipher == \E cipher \in CipherArgs : SetCipherTo(cipher)

setCompressionAlgo(algo) ==
    IF algo <= CompressionAlgorithmMax
    THEN {[t |-> algo, crashed |-> FALSE]}
    ELSE {[t |-> m_compressionAlgo, crashed |-> TRUE], [t |-> algo, crashed |-> FALSE]}

SetCompressionAlgoTo(algo) ==
    /\ ~aborted
    /\ \E o \in setCompressionAlgo(algo) :
        /\ m_compressionAlgo' = o.t
        /\ aborted' = o.crashed
    /\ lastOp' = Op("setCompressionAlgo", <<>>)
    /\ UNCHANGED <<now, notifierVars, m_cipher, m_transformRounds, m_hasKey,
                   m_key, m_transformSeed, m_transformedMasterKey, masterKeyChanged,
                   tree, m_deletedObjects, registry>>

SetCompressionAlgo == \E algo \in CompressionArgs : SetCompressionAlgoTo(algo)

(***************************************************************************)
(* Database::verifyKey: what the call can return ("fault": Q_ASSERT ended  *)
(* the process).  CompositeKey::rawKey() is the comparable representation  *)
(* of the secret.                                                          *)
(***************************************************************************)
rawKey(key) == key

keysMatch(a, b) == IF rawKey(a) = rawKey(b) THEN "true" ELSE "false"

verifyKey(key) ==
    IF m_hasKey
    THEN {keysMatch(m_key, key)}
    ELSE {"fault", keysMatch(m_key, key)}

VerifyKeyOf(key) ==
    /\ ~aborted
    /\ \E r \in verifyKey(key) :
        /\ aborted' = (r = "fault")
        /\ lastOp' = [Op("verifyKey", <<>>) EXCEPT !.result = r]
    /\ UNCHANGED <<now, notifierVars, keyVars, tree, m_deletedObjects, registry>>

VerifyKey == \E key \in CompositeKeys : VerifyKeyOf(key)

(***************************************************************************)
(* The Group/Entry tree.  tree is a record                                 *)
(*   groups  : GroupIds -> [state, parent, children, entries, uuid]        *)
(*   entries : EntryIds -> [state, group, uuid]                            *)
(*   m_rootGroup, m_recycleBin : a Group or Q_NULLPTR                      *)
(*   recycleBinEnabled : Metadata::recycleBinEnabled()                     *)
(* An object is "free" (not yet allocated), "live" or "dead" (deleted);    *)
(* a pointer to a dead object dangles.                                     *)
(***************************************************************************)
FreeGroup == [state |-> "free", parent |-> Q_NULLPTR, children |-> <<>>,
              entries |-> <<>>, uuid |-> NullUuid]
DeadGroup == [FreeGroup EXCEPT !.state = "dead"]
FreeEntry == [state |-> "free", group |-> Q_NULLPTR, uuid |-> NullUuid]
\* no pointer to an Entry is kept outside its Group: a deleted Entry is gone
DeadEntry == FreeEntry

Remove(seq, x) == SelectSeq(seq, LAMBDA y : y # x)
Range(seq) == {seq[i] : i \in 1..Len(seq)}

GroupLive(T, g) == g \in GroupIds /\ T.groups[g].state = "live"
EntryLive(T, e) == e \in EntryIds /\ T.entries[e].state = "live"
LiveGroups(T) == {g \in GroupIds : GroupLive(T, g)}
LiveEntries(T) == {e \in EntryIds : EntryLive(T, e)}
FreeGroups(T) == {g \in GroupIds : T.groups[g].state = "free"}
FreeEntries(T) == {e \in EntryIds : T.entries[e].state = "free"}
\* new Group / new Entry: the next unused object
NewGroupId(T) == CHOOSE g \in FreeGroups(T) : \A h \in FreeGroups(T) : g <= h
NewEntryId(T) == CHOOSE e \in FreeEntries(T) : \A h \in FreeEntries(T) : e <= h

\* Group: the group leaves its parent's children
Group_cleanupParent(G, g) ==
    IF G[g].parent \in GroupIds
    THEN [G EXCEPT ![G[g].parent].children = Remove(@, g)]
    ELSE G

\* Group::setParent(Group*): detach from the old owner, attach to the new one
Group_setParent(G, g, parent) ==
    [Group_cleanupParent(G, g) EXCEPT ![g].parent = parent,
                                      ![parent].children = Append(@, g)]

\* Group::setParent(Database*): the group becomes a root, owned by the Database
Group_setParentDatabase(G, g) ==
    [Group_cleanupParent(G, g) EXCEPT ![g].parent = Q_NULLPTR]

\* Entry::setGroup: ownership moves from the old Group to the new one
Entry_setGroup(T, e, g) ==
    LET old == T.entries[e].group
        G1 == IF old \in GroupIds
              THEN [T.groups EXCEPT ![old].entries = Remove(@, e)]
              ELSE T.groups
    IN [T EXCEPT !.groups = [G1 EXCEPT ![g].entries = Append(@, e)],
                 !.entries = [@ EXCEPT ![e].group = g]]

\* the groups reachable from the groups of S along children
RECURSIVE Reach(_, _)
Reach(G, S) ==
    LET S1 == S \cup UNION {Range(G[g].children) : g \in S}
    IN IF S1 = S THEN S ELSE Reach(G, S1)

Subtree(T, g) == Reach(T.groups, {g})
EntriesIn(T, D) == {e \in LiveEntries(T) : T.entries[e].group \in D}

\* Metadata::recycleBin(): a weak reference, absent once the Group is deleted
recycleBin(T) == IF GroupLive(T, T.m_recycleBin) THEN T.m_recycleBin ELSE Q_NULLPTR

\* delete entry
deleteEntry(T, e) ==
    LET g == T.entries[e].group
    IN [T EXCEPT !.groups = IF g \in GroupIds
                            THEN [@ EXCEPT ![g].entries = Remove(@, e)]
                            ELSE @,
                 !.entries = [@ EXCEPT ![e] = DeadEntry]]

\* delete group: the group leaves its parent and its whole subtree is
\* destroyed; m_rootGroup is a plain pointer and is left as it is; the
\* Metadata's reference to a destroyed recycle Group reads as absent from then
\* on (recycleBin above)
deleteGroup(T, g) ==
    LET D == Subtree(T, g)
        E == EntriesIn(T, D)
        G1 == Group_cleanupParent(T.groups, g)
    IN [T EXCEPT !.groups = [h \in GroupIds |-> IF h \in D THEN DeadGroup ELSE G1[h]],
                 !.entries = [e \in EntryIds |-> IF e \in E THEN DeadEntry ELSE @[e]]]

Outcome(T, crash) == [t |-> T, crashed |-> crash]

(***************************************************************************)
(* Database::setRootGroup (group is not null)                              *)
(***************************************************************************)
setRootGroup(T, group) ==
    [T EXCEPT !.m_rootGroup = group,
              !.groups = Group_setParentDatabase(@, group)]

(***************************************************************************)
(* Database::createRecycleBin; uuid is the identity Group::createRecycleBin *)
(* gives the new Group.  rootGroup() dangling: the call on the deleted     *)
(* object is undefined, the process crashes or goes on with the stale      *)
(* pointer.                                                                *)
(***************************************************************************)
createRecycleBin(T, uuid) ==
    LET bin == NewGroupId(T)
        G1 == [T.groups EXCEPT ![bin] = [FreeGroup EXCEPT !.state = "live",
                                                          !.uuid = uuid]]
    IN IF GroupLive(T, T.m_rootGroup)
       THEN {Outcome([T EXCEPT !.groups = Group_setParent(G1, bin, T.m_rootGroup),
                               !.m_recycleBin = bin], FALSE)}
       ELSE {Outcome(T, TRUE),
             Outcome([T EXCEPT !.groups = [G1 EXCEPT ![bin].parent = T.m_rootGroup],
                               !.m_recycleBin = bin], FALSE)}

(***************************************************************************)
(* Database::recycleEntry                                                  *)
(***************************************************************************)
recycleEntry(T, entry, uuid) ==
    IF T.recycleBinEnabled
    THEN {IF o.crashed THEN o
          ELSE Outcome(Entry_setGroup(o.t, entry, recycleBin(o.t)), FALSE) :
            o \in IF recycleBin(T) = Q_NULLPTR
                  THEN createRecycleBin(T, uuid)
                  ELSE {Outcome(T, FALSE)}}
    ELSE {Outcome(deleteEntry(T, entry), FALSE)}

(***************************************************************************)
(* Database::recycleGroup                                                  *)
(***************************************************************************)
recycleGroup(T, group, uuid) ==
    IF T.recycleBinEnabled
    THEN {IF o.crashed THEN o
          ELSE Outcome([o.t EXCEPT !.groups =
                           Group_setParent(@, group, recycleBin(o.t))], FALSE) :
            o \in IF recycleBin(T) = Q_NULLPTR
                  THEN createRecycleBin(T, uuid)
                  ELSE {Outcome(T, FALSE)}}
    ELSE {Outcome(deleteGroup(T, group), FALSE)}

(***************************************************************************)
(* Database::recFindEntry / recFindGroup.  depth counts the calls on the   *)
(* stack: more of them than there are Groups means that a Group is         *)
(* visited again below itself, and the recursion never returns.            *)
(***************************************************************************)
Diverges == -1

\* the first loop of recFindEntry, over group->entries(): the first Entry
\* of the list whose identity is uuid
FirstMatch_last(T, uuid, entries) ==
    LET hits == {i \in 1..Len(entries) : T.entries[entries[i]].uuid = uuid}
    IN IF hits = {} THEN Q_NULLPTR
       ELSE entries[CHOOSE i \in hits : \A j \in hits : i >= j]

FirstMatch(T, uuid, entries) ==
    LET hits == {i \in 1..Len(entries) : T.entries[entries[i]].uuid = uuid}
    IN IF hits = {} THEN Q_NULLPTR
       ELSE entries[CHOOSE i \in hits : \A j \in hits : i <= j]

RECURSIVE recFindEntry(_, _, _, _)
RECURSIVE recFindEntryIn(_, _, _, _)
\* the second loop of recFindEntry, over the children left to visit
recFindEntryIn(T, uuid, children, depth) ==
    IF children = <<>> THEN Q_NULLPTR
    ELSE LET result == recFindEntry(T, uuid, Head(children), depth)
         IN IF result # Q_NULLPTR THEN result
            ELSE recFindEntryIn(T, uuid, Tail(children), depth)

recFindEntry(T, uuid, group, depth) ==
    IF depth > MaxGroups THEN Diverges
    ELSE LET own == FirstMatch(T, uuid, T.groups[group].entries)
         IN IF own # Q_NULLPTR THEN own
            ELSE recFindEntryIn(T, uuid, T.groups[group].children, depth + 1)

RECURSIVE recFindGroup(_, _, _, _)
RECURSIVE recFindGroupIn(_, _, _, _)
\* the loop of recFindGroup, over the children left to visit
recFindGroupIn(T, uuid, children, depth) ==
    IF children = <<>> THEN Q_NULLPTR
    ELSE LET result == recFindGroup(T, uuid, Head(children), depth)
         IN IF result # Q_NULLPTR THEN result
            ELSE recFindGroupIn(T, uuid, Tail(children), depth)

recFindGroup(T, uuid, group, depth) ==
    IF depth > MaxGroups THEN Diverges
    ELSE IF T.groups[group].uuid = uuid THEN group
    ELSE recFindGroupIn(T, uuid, T.groups[group].children, depth + 1)

\* Database::resolveEntry / resolveGroup: what the call can return.  With
\* m_rootGroup dangling the read of the deleted object is undefined: any result.
resolveEntry(T, uuid) ==
    IF GroupLive(T, T.m_rootGroup)
    THEN {recFindEntry(T, uuid, T.m_rootGroup, 1)}
    ELSE EntryIds \cup {Q_NULLPTR, Diverges}

resolveGroup(T, uuid) ==
    IF GroupLive(T, T.m_rootGroup)
    THEN {recFindGroup(T, uuid, T.m_rootGroup, 1)}
    ELSE GroupIds \cup {Q_NULLPTR, Diverges}

(***************************************************************************)
(* The operations on the tree as steps.                                    *)
(***************************************************************************)
treeFrame == <<now, notifierVars, keyVars, m_deletedObjects, registry>>

TreeStep(outcomes, name) ==
    /\ ~aborted
    /\ \E o \in outcomes :
        /\ tree' = o.t
        /\ aborted' = o.crashed
    /\ lastOp' = Op(name, <<>>)
    /\ UNCHANGED treeFrame

\* a caller makes a Group with an identity and puts it under a Group
NewGroup ==
    /\ FreeGroups(tree) # {}
    /\ \E parent \in LiveGroups(tree), uuid \in Uuids :
        LET g == NewGroupId(tree)
            G1 == [tree.groups EXCEPT ![g] = [FreeGroup EXCEPT !.state = "live",
                                                               !.uuid = uuid]]
        IN TreeStep({Outcome([tree EXCEPT !.groups = Group_setParent(G1, g, parent)],
                             FALSE)}, "caller")

\* a caller makes an Entry with an identity and puts it into a Group
NewEntry ==
    /\ FreeEntries(tree) # {}
    /\ \E group \in LiveGroups(tree), uuid \in Uuids :
        LET e == NewEntryId(tree)
            T1 == [tree EXCEPT !.entries = [@ EXCEPT ![e] = [FreeEntry EXCEPT
                                                !.state = "live", !.uuid = uuid]]]
        IN TreeStep({Outcome(Entry_setGroup(T1, e, group), FALSE)}, "caller")

\* Metadata::setRecycleBinEnabled
SetRecycleBinEnabled ==
    \E value \in BOOLEAN :
        TreeStep({Outcome([tree EXCEPT !.recycleBinEnabled = value], FALSE)},
                 "caller")

\* setRootGroup(group) with a Group that exists
SetRootGroupTo(group) ==
    /\ GroupLive(tree, group)
    /\ TreeStep({Outcome(setRootGroup(tree, group), FALSE)}, "setRootGroup")

SetRootGroup == \E group \in GroupIds : SetRootGroupTo(group)

\* setRootGroup(new Group()), the new Group given an identity first
SetRootGroupNew ==
    /\ FreeGroups(tree) # {}
    /\ \E uuid \in Uuids :
        LET g == NewGroupId(tree)
            T1 == [tree EXCEPT !.groups = [@ EXCEPT ![g] = [FreeGroup EXCEPT
                                                !.state = "live", !.uuid = uuid]]]
        IN TreeStep({Outcome(setRootGroup(T1, g), FALSE)}, "setRootGroup")

\* setRootGroup(group) with group null: Q_ASSERT ends the process in a debug
\* build; a release build assigns m_rootGroup and ends in the call
\* m_rootGroup->setParent(this) on the null pointer
setRootGroupNull(T) ==
    {Outcome(T, TRUE), Outcome([T EXCEPT !.m_rootGroup = Q_NULLPTR], TRUE)}

SetRootGroupNull == TreeStep(setRootGroupNull(tree), "setRootGroup")

CreateRecycleBin ==
    /\ FreeGroups(tree) # {}
    /\ \E uuid \in Uuids : TreeStep(createRecycleBin(tree, uuid), "createRecycleBin")

\* a recycle call that has to create the recycle bin needs an unused Group
CanRecycle == tree.recycleBinEnabled /\ recycleBin(tree) = Q_NULLPTR
                => FreeGroups(tree) # {}

RecycleEntryOf(entry) ==
    /\ EntryLive(tree, entry)
    /\ CanRecycle
    /\ \E uuid \in Uuids : TreeStep(recycleEntry(tree, entry, uuid), "recycleEntry")

RecycleEntry == \E entry \in EntryIds : RecycleEntryOf(entry)

RecycleGroupOf(group) ==
    /\ GroupLive(tree, group)
    /\ CanRecycle
    /\ \E uuid \in Uuids : TreeStep(recycleGroup(tree, group, uuid), "recycleGroup")

RecycleGroup == \E group \in GroupIds : RecycleGroupOf(group)

\* Database::Database: setRootGroup(new Group()); rootGroup()->setUuid(Uuid::random())
\* Identities are only ever compared with each other: the root Group's random
\* identity is called 1.
InitTree ==
    tree = setRootGroup(
             [groups |-> [g \in GroupIds |->
                            IF g = 1 THEN [FreeGroup EXCEPT !.state = "live",
                                                            !.uuid = 1]
                            ELSE FreeGroup],
              entries |-> [e \in EntryIds |-> FreeEntry],
              m_rootGroup |-> Q_NULLPTR,
              m_recycleBin |-> Q_NULLPTR,
              recycleBinEnabled |-> TRUE], 1)

NextTree ==
    \/ NewGroup
    \/ NewEntry
    \/ SetRecycleBinEnabled
    \/ SetRootGroup
    \/ SetRootGroupNew
    \/ CreateRecycleBin
    \/ RecycleEntry
    \/ RecycleGroup

(***************************************************************************)
(* The tombstone ledger m_deletedObjects: a list of DeletedObject          *)
(* [uuid, deletionTime, timeSpec].                                         *)
(***************************************************************************)
DeletedObject(uuid, deletionTime, timeSpec) ==
    [uuid |-> uuid, deletionTime |-> deletionTime, timeSpec |-> timeSpec]

\* what a caller may pass: any identity, a time up to now, UTC or local time
DeletedObjects ==
    {DeletedObject(uuid, time, timeSpec) :
        uuid \in Uuids, time \in {0, now}, timeSpec \in {"UTC", "LocalTime"}}

\* Database::addDeletedObject(const DeletedObject&): the ledgers the call can
\* leave, and whether the process goes on.  Q_ASSERT ends the process in a
\* debug build and is compiled out of a release build.
addDeletedObject_prepends(ledger, delObj) ==
    IF delObj.timeSpec = "UTC"
    THEN {Outcome(<<delObj>> \o ledger, FALSE)}
    ELSE {Outcome(ledger, TRUE), Outcome(<<delObj>> \o ledger, FALSE)}

addDeletedObject(ledger, delObj) ==
    IF delObj.timeSpec = "UTC"
    THEN {Outcome(Append(ledger, delObj), FALSE)}
    ELSE {Outcome(ledger, TRUE), Outcome(Append(ledger, delObj), FALSE)}

\* Database::addDeletedObject(const Uuid&)
addDeletedObjectUuid(ledger, uuid) ==
    addDeletedObject(ledger, DeletedObject(uuid, now, "UTC"))

\* Database::deletedObjects(): a copy of the list
deletedObjects == m_deletedObjects

ledgerFrame == <<now, notifierVars, keyVars, tree, registry>>

LedgerStep(outcomes, name) ==
    /\ ~aborted
    /\ Len(m_deletedObjects) < MaxDeletedObjects
    /\ \E o \in outcomes :
        /\ m_deletedObjects' = o.t
        /\ aborted' = o.crashed
    /\ lastOp' = Op(name, <<>>)
    /\ UNCHANGED ledgerFrame

AddDeletedObjectOf(delObj) ==
    LedgerStep(addDeletedObject(m_deletedObjects, delObj), "addDeletedObject")

AddDeletedObject == \E delObj \in DeletedObjects : AddDeletedObjectOf(delObj)

AddDeletedObjectUuidOf(uuid) ==
    LedgerStep(addDeletedObjectUuid(m_deletedObjects, uuid), "addDeletedObjectUuid")

AddDeletedObjectUuid == \E uuid \in Uuids : AddDeletedObjectUuidOf(uuid)

(***************************************************************************)
(* The Database objects of the process and the static m_uuidMap.           *)
(* registry is a record                                                    *)
(*   state  : DatabaseIds -> "free" | "live" | "dead"                      *)
(*   m_uuid : DatabaseIds -> the object's identity                         *)
(*   m_uuidMap : Uuids -> the registered object, or Q_NULLPTR              *)
(* Database 1 is the one whose tree, key and notifier the model follows;   *)
(* of the others only what the registry sees is kept.                      *)
(***************************************************************************)
\* QHash::insert: a value already stored under the key is replaced
QHash_insert(map, key, value) == [map EXCEPT ![key] = value]
\* QHash::remove: the key is gone, whatever was stored under it
QHash_remove(map, key) == [map EXCEPT ![key] = Q_NULLPTR]

\* Database::Database, as the registry sees it: m_uuid(Uuid::random()),
\* m_uuidMap.insert(m_uuid, this)
constructDatabase(R, db, uuid) ==
    [R EXCEPT !.state = [@ EXCEPT ![db] = "live"],
              !.m_uuid = [@ EXCEPT ![db] = uuid],
              !.m_uuidMap = QHash_insert(@, uuid, db)]

\* Database::~Database: m_uuidMap.remove(m_uuid)
destroyDatabase(R, db) ==
    [R EXCEPT !.state = [@ EXCEPT ![db] = "dead"],
              !.m_uuidMap = QHash_remove(@, R.m_uuid[db])]

\* Database::databaseByUuid: m_uuidMap.value(uuid, 0)
databaseByUuid(R, uuid) == R.m_uuidMap[uuid]

LiveDatabases(R) == {db \in DatabaseIds : R.state[db] = "live"}

registryFrame == <<now, aborted, notifierVars, keyVars, tree, m_deletedObjects>>

ConstructOf(db, uuid) ==
    /\ ~aborted
    /\ registry.state[db] = "free"
    /\ \A other \in DatabaseIds : other < db => registry.state[other] # "free"
    /\ registry' = constructDatabase(registry, db, uuid)
    /\ lastOp' = Op("Database", <<>>)
    /\ UNCHANGED registryFrame

Construct == \E db \in DatabaseIds, uuid \in Uuids : ConstructOf(db, uuid)

DestroyOf(db) ==
    /\ ~aborted
    /\ registry.state[db] = "live"
    /\ registry' = destroyDatabase(registry, db)
    /\ lastOp' = Op("~Database", <<>>)
    /\ UNCHANGED registryFrame

Destroy == \E db \in DatabaseIds : DestroyOf(db)

\* the registry after the first Database was constructed; its random
\* identity is called 1
InitRegistry ==
    registry = constructDatabase(
                 [state |-> [db \in DatabaseIds |-> "free"],
                  m_uuid |-> [db \in DatabaseIds |-> NullUuid],
                  m_uuidMap |-> [uuid \in Uuids |-> Q_NULLPTR]], 1, 1)

(***************************************************************************)
(* The state after Database::Database().                                   *)
(***************************************************************************)
InitNotifierKey ==
    /\ now = 0
    /\ aborted = FALSE
    /\ m_timer = TimerStopped
    /\ m_emitModified = FALSE
    /\ m_cipher = CIPHER_AES
    /\ m_compressionAlgo = CompressionGZip
    /\ m_transformRounds = DefaultTransformRounds
    /\ m_hasKey = FALSE
    /\ m_key = EmptyKey
    /\ m_transformSeed = EmptySeed
    /\ m_transformedMasterKey = EmptyByteArray
    /\ masterKeyChanged = 0
    /\ lastOp = Op("Database", <<>>)
    /\ burst = NoBurst

Init ==
    /\ InitNotifierKey
    /\ InitTree
    /\ m_deletedObjects = <<>>
    /\ InitRegistry

Next ==
    \/ SetEmitModified
    \/ MetadataModified
    \/ TimerTimeout
    \/ Tick
    \/ SetKeyWithSeed
    \/ SetKey
    \/ SetTransformRounds

Spec == Init /\ [][Next]_vars

SpecTree == Init /\ [][NextTree]_vars

NextLedger ==
    \/ AddDeletedObject
    \/ AddDeletedObjectUuid
    \/ Tick

SpecLedger == Init /\ [][NextLedger]_vars

NextRegistry ==
    \/ Construct
    \/ Destroy

SpecRegistry == Init /\ [][NextRegistry]_vars

\* the key manager alone: notifications stay disabled, as after construction
NextKey ==
    \/ SetKeyWithSeed
    \/ SetKey
    \/ SetTransformRounds
    \/ SetCipher
    \/ SetCompressionAlgo
    \/ VerifyKey
    \/ Tick

SpecKey == Init /\ [][NextKey]_vars

\* the operations that have a precondition, called with and without it
NextPreconditions ==
    \/ SetCipher
    \/ SetCompressionAlgo
    \/ VerifyKey
    \/ SetKey
    \/ AddDeletedObject
    \/ SetRootGroupNull

SpecPreconditions == Init /\ [][NextPreconditions]_vars

(***************************************************************************)
(* Claims about the change notifier and the key manager.                   *)
(***************************************************************************)

\* C1: with notifications enabled, a burst of modifiedImmediate events each
\* arriving while the previous timer is pending yields exactly one 'modified'
\* signal, 150 time units after the last event of the burst; while the timer is
\* pending nothing has fired for the burst and the deadline is measured from the
\* last event; after firing the timer is not pending.
C1_DebounceCoalesces ==
    /\ m_timer.active =>
        /\ burst.open
        /\ burst.fired = 0
        /\ m_timer.deadline = burst.last + ModifiedDelay
    /\ burst.fired <= 1
    /\ burst.fired = 1 =>
        /\ burst.firedAt = burst.last + ModifiedDelay
        /\ ~m_timer.active
    /\ (burst.open /\ ~m_timer.active /\ ~burst.cancelled) => burst.fired = 1

\* C1 witness: a burst of events at different times has fired its one signal.
C1_Witness ==
    /\ burst.open
    /\ burst.first < burst.last
    /\ burst.fired = 1
    /\ lastOp.op = "timeout"

\* C2: setEmitModified(false) while the timer is pending stops it without
\* firing: nothing is emitted for the burst, then or later, until notifications
\* are enabled again and a new modifiedImmediate event starts a new burst.
C2_DisableCancels ==
    burst.cancelled => (burst.fired = 0 /\ ~m_timer.active)

\* C2 witness: a cancelled burst whose deadline has passed, notifications
\* enabled again, and still nothing fired.
C2_Witness ==
    /\ burst.cancelled
    /\ m_emitModified
    /\ now > burst.last + ModifiedDelay

\* C3 as claimed: setTransformRounds(r), r different from the current count,
\* with a key set, re-derives with the existing secret and the existing seed.
C3_ExistingSeedKept ==
    [][\A r \in RoundsArgs :
        (m_hasKey /\ r # m_transformRounds /\ SetTransformRoundsTo(r)) =>
            /\ m_transformSeed' = m_transformSeed
            /\ m_transformedMasterKey' = transform(m_key', m_transformSeed, r)]_vars

\* C3 amended: the re-derivation is immediate and uses the existing secret, the
\* new round count and the seed that transformSeed() returns after the call,
\* which setKey(m_key) has drawn anew.
C3_RederivedWithNewSeed ==
    [][\A r \in RoundsArgs :
        (m_hasKey /\ r # m_transformRounds /\ SetTransformRoundsTo(r)) =>
            /\ m_hasKey'
            /\ m_key' = m_key
            /\ m_transformRounds' = r
            /\ m_transformSeed' \in Seeds
            /\ m_transformedMasterKey' = transform(m_key, m_transformSeed', r)]_vars

\* C3 witness: setTransformRounds has re-derived the key under a new count.
C3_Witness ==
    /\ lastOp = Op("setTransformRounds", <<"modifiedImmediate">>)
    /\ m_hasKey
    /\ m_transformRounds # DefaultTransformRounds
    /\ m_transformedMasterKey = transform(m_key, m_transformSeed, m_transformRounds)

\* C4: setTransformRounds(r) with r equal to the current count changes nothing
\* of the key state, raises no modifiedImmediate and leaves the timer alone.
C4_SameRoundsNoOp ==
    [][\A r \in RoundsArgs :
        (r = m_transformRounds /\ SetTransformRoundsTo(r)) =>
            /\ UNCHANGED <<m_transformRounds, m_hasKey, m_key, m_transformSeed,
                           m_transformedMasterKey, masterKeyChanged>>
            /\ UNCHANGED <<m_timer, m_emitModified, burst>>
            /\ lastOp'.signals = <<>>]_vars

\* C4 witness: the call was made with a key set and a timer pending, and
\* raised nothing.
C4_Witness ==
    /\ lastOp = Op("setTransformRounds", <<>>)
    /\ m_hasKey
    /\ m_timer.active
    /\ now > burst.last

(***************************************************************************)
(* Claims about the recycle policy and the tree.                           *)
(***************************************************************************)

\* the recycle Group of T2 is the one T had, and no Group was made
BinReused(T, T2) ==
    /\ recycleBin(T2) = recycleBin(T)
    /\ LiveGroups(T2) = LiveGroups(T)

\* exactly one Group was made between T and T2: the recycle Group of T2, a
\* child of T's root
BinCreated(T, T2) ==
    \E bin \in GroupIds \ LiveGroups(T) :
        /\ LiveGroups(T2) = LiveGroups(T) \cup {bin}
        /\ T2.m_recycleBin = bin
        /\ T2.groups[bin].parent = T.m_rootGroup
        /\ bin \in Range(T2.groups[T.m_rootGroup].children)

BinReusedOrCreated(T, T2) ==
    IF recycleBin(T) # Q_NULLPTR
    THEN BinReused(T, T2)
    ELSE BinCreated(T, T2) /\ ~aborted'

\* C6 as claimed: with recycling enabled, a recycleEntry or recycleGroup call
\* that finds no recycle Group creates exactly one, as a child of the root
\* Group, and records it in the Metadata; a call that finds the recycle Group
\* reuses it and creates none; the recycled object is owned by the recycle
\* Group afterwards.
C6_OneRecycleBin ==
    [][(lastOp'.op \in {"recycleEntry", "recycleGroup"} /\ tree.recycleBinEnabled) =>
        /\ \A e \in EntryIds : RecycleEntryOf(e) =>
              /\ BinReusedOrCreated(tree, tree')
              /\ ~aborted' =>
                    /\ tree'.entries[e].group = recycleBin(tree')
                    /\ e \in Range(tree'.groups[recycleBin(tree')].entries)
        /\ \A g \in GroupIds : RecycleGroupOf(g) =>
              /\ BinReusedOrCreated(tree, tree')
              /\ ~aborted' =>
                    /\ tree'.groups[g].parent = recycleBin(tree')
                    /\ g \in Range(tree'.groups[recycleBin(tree')].children)]_vars

\* The statement of C6 holds of every call made while m_rootGroup points to a
\* Group that exists.
RecycleBinOnceGivenRoot ==
    [][(lastOp'.op \in {"recycleEntry", "recycleGroup"} /\ tree.recycleBinEnabled
            /\ GroupLive(tree, tree.m_rootGroup)) =>
        /\ \A e \in EntryIds : RecycleEntryOf(e) =>
              /\ BinReusedOrCreated(tree, tree')
              /\ tree'.entries[e].group = recycleBin(tree')
              /\ e \in Range(tree'.groups[recycleBin(tree')].entries)
        /\ \A g \in GroupIds : RecycleGroupOf(g) =>
              /\ BinReusedOrCreated(tree, tree')
              /\ tree'.groups[g].parent = recycleBin(tree')
              /\ g \in Range(tree'.groups[recycleBin(tree')].children)]_vars

\* a state in which the case of C6 has happened: the recycle Group, a child of
\* the root, holds an Entry and a Group that were recycled into it, and it is
\* the only Group besides the root and the recycled one.
RecycleBinOnceReached ==
    /\ lastOp.op = "recycleGroup"
    /\ tree.recycleBinEnabled
    /\ recycleBin(tree) # Q_NULLPTR
    /\ tree.groups[recycleBin(tree)].parent = tree.m_rootGroup
    /\ tree.groups[recycleBin(tree)].entries # <<>>
    /\ \E g \in LiveGroups(tree) \ {tree.m_rootGroup, recycleBin(tree)} :
          /\ tree.groups[g].parent = recycleBin(tree)
          /\ LiveGroups(tree) = {tree.m_rootGroup, recycleBin(tree), g}

\* C7 as claimed: with recycling disabled, recycleEntry(e) leaves e's identity
\* unresolvable (no other Entry carrying it), creates no Group and leaves the
\* Metadata's recycle Group alone; recycleGroup(g) leaves no identity of g's
\* subtree resolvable (no surviving object carrying it).
C7_DestroyedNotResolvable ==
    [][(lastOp'.op \in {"recycleEntry", "recycleGroup"} /\ ~tree.recycleBinEnabled) =>
        /\ \A e \in EntryIds : RecycleEntryOf(e) =>
              /\ (\A f \in LiveEntries(tree') :
                      tree'.entries[f].uuid # tree.entries[e].uuid)
                   => resolveEntry(tree', tree.entries[e].uuid) = {Q_NULLPTR}
              /\ LiveGroups(tree') = LiveGroups(tree)
              /\ tree'.m_recycleBin = tree.m_recycleBin
        /\ \A g \in GroupIds : RecycleGroupOf(g) =>
              /\ \A d \in Subtree(tree, g) :
                    (\A h \in LiveGroups(tree') :
                        tree'.groups[h].uuid # tree.groups[d].uuid)
                      => resolveGroup(tree', tree.groups[d].uuid) = {Q_NULLPTR}
              /\ \A e \in EntriesIn(tree, Subtree(tree, g)) :
                    (\A f \in LiveEntries(tree') :
                        tree'.entries[f].uuid # tree.entries[e].uuid)
                      => resolveEntry(tree', tree.entries[e].uuid) = {Q_NULLPTR}]_vars

\* no Group reachable from g is reachable from one of its own children
AcyclicFrom(T, g) ==
    \A h \in Subtree(T, g) : h \notin Reach(T.groups, Range(T.groups[h].children))

\* C8 as claimed: in every reachable state the root Group has no parent Group
\* and the Groups reachable from it form a tree without cycles.
C8_RootHasNoParent ==
    ~aborted =>
        /\ tree.groups[tree.m_rootGroup].parent = Q_NULLPTR
        /\ AcyclicFrom(tree, tree.m_rootGroup)

(***************************************************************************)
(* Claims about the tombstone ledger.                                      *)
(***************************************************************************)
IsPrefix(a, b) == Len(a) <= Len(b) /\ SubSeq(b, 1, Len(a)) = a

\* C5: the ledger is append-only: over every step the tombstones returned
\* before are still there, at the same positions and unchanged, and an
\* addDeletedObject call that returns has put exactly one tombstone, the one it
\* was given (or made from the identity and the current UTC time), at the end.
C5_LedgerAppendOnly ==
    [][/\ IsPrefix(deletedObjects, deletedObjects')
       /\ \A delObj \in DeletedObjects :
            (AddDeletedObjectOf(delObj) /\ ~aborted') =>
                deletedObjects' = Append(deletedObjects, delObj)
       /\ \A uuid \in Uuids :
            AddDeletedObjectUuidOf(uuid) =>
                deletedObjects' =
                    Append(deletedObjects, DeletedObject(uuid, now, "UTC"))]_vars

\* C5 witness: two different tombstones, the second appended by
\* addDeletedObject(identity) at a later time.
C5_Witness ==
    /\ lastOp.op = "addDeletedObjectUuid"
    /\ Len(m_deletedObjects) = 2
    /\ m_deletedObjects[1].uuid # m_deletedObjects[2].uuid
    /\ m_deletedObjects[1].deletionTime < m_deletedObjects[2].deletionTime
    /\ m_deletedObjects[2].deletionTime = now

(***************************************************************************)
(* Claims about the identity registry.                                     *)
(***************************************************************************)

\* C9 as claimed: for every identity, databaseByUuid returns a live Database
\* exactly when a Database with that identity has been constructed and not yet
\* destroyed, and the one returned has that identity.
C9_LookupIffLive ==
    \A uuid \in Uuids :
        LET found == databaseByUuid(registry, uuid)
        IN /\ (found \in LiveDatabases(registry))
                <=> (\E db \in LiveDatabases(registry) : registry.m_uuid[db] = uuid)
           /\ found # Q_NULLPTR =>
                (found \in LiveDatabases(registry) /\ registry.m_uuid[found] = uuid)

\* C10 as claimed: constructing a Database under an identity that is already
\* registered leaves that registration with the first instance; no two live
\* instances share an identity; destroying an instance leaves the
\* registrations of the others alone.
C10_DuplicateRejected ==
    [][/\ \A db \in DatabaseIds, uuid \in Uuids :
            (ConstructOf(db, uuid) /\ databaseByUuid(registry, uuid) # Q_NULLPTR) =>
                databaseByUuid(registry', uuid) = databaseByUuid(registry, uuid)
       /\ \A a, b \in LiveDatabases(registry') :
            a # b => registry'.m_uuid[a] # registry'.m_uuid[b]
       /\ \A db \in DatabaseIds : DestroyOf(db) =>
            \A uuid \in Uuids :
                databaseByUuid(registry, uuid) \notin {Q_NULLPTR, db} =>
                    databaseByUuid(registry', uuid) = databaseByUuid(registry, uuid)]_vars

(***************************************************************************)
(* Claims about the lookup by identity.                                    *)
(***************************************************************************)
\* what is under the root is a tree: the root exists and no Group below it
\* is below itself
WellFormedTree(T) ==
    /\ GroupLive(T, T.m_rootGroup)
    /\ AcyclicFrom(T, T.m_rootGroup)

\* the Entries below g in depth-first pre-order: g's own entries in order,
\* then those of its child Groups in order
RECURSIVE PreorderEntries(_, _)
RECURSIVE PreorderEntriesOfAll(_, _)
PreorderEntriesOfAll(T, children) ==
    IF children = <<>> THEN <<>>
    ELSE PreorderEntries(T, Head(children)) \o PreorderEntriesOfAll(T, Tail(children))

PreorderEntries(T, g) ==
    T.groups[g].entries \o PreorderEntriesOfAll(T, T.groups[g].children)

\* the Groups below g in depth-first pre-order: g, then its child Groups
RECURSIVE PreorderGroups(_, _)
RECURSIVE PreorderGroupsOfAll(_, _)
PreorderGroupsOfAll(T, children) ==
    IF children = <<>> THEN <<>>
    ELSE PreorderGroups(T, Head(children)) \o PreorderGroupsOfAll(T, Tail(children))

PreorderGroups(T, g) == <<g>> \o PreorderGroupsOfAll(T, T.groups[g].children)

\* r is the first object of list whose identity (given by uuidOf) is uuid, or
\* Q_NULLPTR when list has none
IsFirstWith(list, uuidOf, uuid, r) ==
    IF \A i \in 1..Len(list) : uuidOf[list[i]] # uuid
    THEN r = Q_NULLPTR
    ELSE \E i \in 1..Len(list) :
            /\ list[i] = r
            /\ uuidOf[r] = uuid
            /\ \A j \in 1..(i - 1) : uuidOf[list[j]] # uuid

\* C11: in every tree and for every identity, resolveEntry returns the first
\* Entry with that identity in depth-first pre-order and resolveGroup the first
\* Group with it, a node before its children; each returns absent exactly when
\* nothing under the root has the identity, and never an object of another
\* identity.
C11_ResolveFirstPreorder ==
    WellFormedTree(tree) =>
        \A uuid \in Uuids :
            /\ \E r \in EntryIds \cup {Q_NULLPTR} :
                  /\ resolveEntry(tree, uuid) = {r}
                  /\ IsFirstWith(PreorderEntries(tree, tree.m_rootGroup),
                                 [e \in EntryIds |-> tree.entries[e].uuid], uuid, r)
                  /\ r = Q_NULLPTR <=>
                        \A e \in EntriesIn(tree, Subtree(tree, tree.m_rootGroup)) :
                            tree.entries[e].uuid # uuid
            /\ \E r \in GroupIds \cup {Q_NULLPTR} :
                  /\ resolveGroup(tree, uuid) = {r}
                  /\ IsFirstWith(PreorderGroups(tree, tree.m_rootGroup),
                                 [g \in GroupIds |-> tree.groups[g].uuid], uuid, r)
                  /\ r = Q_NULLPTR <=>
                        \A g \in Subtree(tree, tree.m_rootGroup) :
                            tree.groups[g].uuid # uuid

\* C11 witness: two Entries of one Group below the root carry the same
\* identity, the one allocated later first in the Group's list, and the lookup
\* returns that one; an identity no Group carries is absent.
C11_Witness ==
    /\ WellFormedTree(tree)
    /\ \E uuid \in Uuids, e, f \in LiveEntries(tree) :
          /\ e # f
          /\ tree.entries[e].uuid = uuid
          /\ tree.entries[f].uuid = uuid
          /\ tree.entries[e].group = tree.entries[f].group
          /\ tree.entries[e].group # tree.m_rootGroup
          /\ tree.entries[e].group \in Subtree(tree, tree.m_rootGroup)
          /\ resolveEntry(tree, uuid) = {e}
          /\ e > f
    /\ \E uuid \in Uuids : resolveGroup(tree, uuid) = {Q_NULLPTR}

(***************************************************************************)
(* Further claims about the key manager and the change notifier.           *)
(***************************************************************************)

\* C12: setKey(compositeKey, seed, updateChangedTime) applies all its effects
\* together: afterwards key() is compositeKey, transformSeed() is seed,
\* transformedMasterKey() is compositeKey.transform(seed, transformRounds()),
\* hasKey() is true and modifiedImmediate has been raised (with notifications
\* enabled the debounce timer runs from now); the master-key-changed time is
\* the current time when updateChangedTime is true and unchanged when false.
C12_SetKeyAllEffects ==
    [][\A key \in CompositeKeys, seed \in Seeds, updateChangedTime \in BOOLEAN :
        SetKeyWithSeedOf(key, seed, updateChangedTime) =>
            /\ m_key' = key
            /\ m_transformSeed' = seed
            /\ m_transformRounds' = m_transformRounds
            /\ m_transformedMasterKey' = transform(key, seed, m_transformRounds')
            /\ m_hasKey'
            /\ lastOp'.signals = <<"modifiedImmediate">>
            /\ m_emitModified =>
                  m_timer' = [active |-> TRUE, deadline |-> now + ModifiedDelay]
            /\ ~m_emitModified => m_timer' = m_timer
            /\ masterKeyChanged' = IF updateChangedTime THEN now
                                   ELSE masterKeyChanged]_vars

\* C12 witness: a setKey call with updateChangedTime false has replaced a key
\* set earlier: the master-key-changed time is still the earlier one, and the
\* event it raised has started the timer.
C12_Witness ==
    /\ lastOp.op = "setKey3"
    /\ m_hasKey
    /\ m_transformedMasterKey = transform(m_key, m_transformSeed, m_transformRounds)
    /\ 0 < masterKeyChanged
    /\ masterKeyChanged < now
    /\ m_timer = [active |-> TRUE, deadline |-> now + ModifiedDelay]

\* C13 as claimed: every setKey(compositeKey) call with the seed omitted
\* installs a seed that differs from the seed stored before the call.
C13_SeedAlwaysDiffers ==
    [][\A key \in CompositeKeys :
        SetKeyOf(key) => m_transformSeed' # m_transformSeed]_vars

\* C13 amended: every setKey(compositeKey) call with the seed omitted installs
\* a seed drawn by Random::randomArray(32), whatever seed was stored before,
\* derives the transformed key from it, and updates the master-key-changed
\* time; that the seed differs from the previous one is not guaranteed.
C13_SeedDrawnAnew ==
    [][\A key \in CompositeKeys :
        SetKeyOf(key) =>
            /\ m_transformSeed' \in Seeds
            /\ m_key' = key
            /\ m_hasKey'
            /\ m_transformedMasterKey' =
                  transform(key, m_transformSeed', m_transformRounds)
            /\ masterKeyChanged' = now]_vars

\* C13 witness: setKey(compositeKey) has been called, after time has passed,
\* under another round count than the constructor's.
C13_Witness ==
    /\ lastOp.op = "setKey1"
    /\ m_hasKey
    /\ m_transformSeed \in Seeds
    /\ m_transformRounds # DefaultTransformRounds
    /\ m_transformedMasterKey = transform(m_key, m_transformSeed, m_transformRounds)
    /\ masterKeyChanged = now
    /\ now > 0

(***************************************************************************)
(* Claims about the operations' preconditions.                             *)
(***************************************************************************)

\* C14 as claimed: an operation called in breach of its precondition fails
\* fast and leaves the state unchanged: setCipher with the null identity leaves
\* cipher() unchanged, setCompressionAlgo with a value above the maximum leaves
\* compressionAlgo() unchanged, addDeletedObject with a non-UTC tombstone
\* leaves the ledger unchanged, setRootGroup(null) leaves the root unchanged,
\* and verifyKey before any key is set reports a fault instead of a boolean.
C14_BreachLeavesStateUnchanged ==
    [][/\ SetCipherTo(NullUuid) => (aborted' /\ m_cipher' = m_cipher)
       /\ \A algo \in CompressionArgs :
            (algo > CompressionAlgorithmMax /\ SetCompressionAlgoTo(algo)) =>
                (aborted' /\ m_compressionAlgo' = m_compressionAlgo)
       /\ \A delObj \in DeletedObjects :
            (delObj.timeSpec # "UTC" /\ AddDeletedObjectOf(delObj)) =>
                (aborted' /\ m_deletedObjects' = m_deletedObjects)
       /\ SetRootGroupNull => (aborted' /\ tree'.m_rootGroup = tree.m_rootGroup)
       /\ \A key \in CompositeKeys :
            (~m_hasKey /\ VerifyKeyOf(key)) =>
                (aborted' /\ lastOp'.result = "fault")]_vars

(***************************************************************************)
(* Further claims about the change notifier.                               *)
(***************************************************************************)
\* a step of an operation that raises modifiedImmediate
RaisesModifiedImmediate ==
    \/ MetadataModified
    \/ SetKeyWithSeed
    \/ SetKey
    \/ (SetTransformRounds /\ lastOp'.signals = <<"modifiedImmediate">>)

\* C15: setEmitModified(true) has no retroactive effect: it starts no timer
\* and emits nothing; a modifiedImmediate event raised while notifications are
\* disabled leaves the timer stopped; the timer is only ever started by a
\* modifiedImmediate event raised while notifications are enabled, and a
\* 'modified' signal only ever fires for a burst of such events.
C15_NoRetroactiveEffect ==
    [][/\ SetEmitModifiedTo(TRUE) =>
            (m_timer' = m_timer /\ lastOp'.signals = <<>>)
       /\ (~m_emitModified /\ RaisesModifiedImmediate) =>
            (~m_timer'.active /\ burst' = burst)
       /\ (~m_timer.active /\ m_timer'.active) =>
            (m_emitModified /\ RaisesModifiedImmediate /\ burst'.first = now)
       /\ TimerTimeout =>
            (m_emitModified /\ burst.open /\ now = burst.last + ModifiedDelay)]_vars

\* C15 witness: a key was set (an event was raised) while notifications were
\* disabled, notifications have been enabled since, the clock has run to its
\* end, and no event was ever accepted and nothing ever fired.
C15_Witness ==
    /\ m_hasKey
    /\ m_emitModified
    /\ lastOp.op = "setEmitModified"
    /\ burst = NoBurst
    /\ ~m_timer.active
    /\ now = MaxTime

\* C19: in every reachable state the debounce timer is pending only if
\* emitModified is true, and 'modified' has only fired with notifications
\* enabled.
C19_PendingOnlyIfEnabled ==
    /\ m_timer.active => m_emitModified
    /\ lastOp.op = "timeout" => m_emitModified

\* C19 witness: a pending timer was stopped by disabling notifications, and
\* with notifications still disabled its deadline has passed with nothing
\* fired.
C19_Witness ==
    /\ ~m_emitModified
    /\ burst.cancelled
    /\ burst.fired = 0
    /\ ~m_timer.active
    /\ now > burst.last + ModifiedDelay

(***************************************************************************)
(* Further claims about the recycle policy and the lookup.                 *)
(***************************************************************************)
\* the Metadata refers to a recycle Group that has been destroyed
BinDestroyed(T) == T.m_recycleBin # Q_NULLPTR /\ ~GroupLive(T, T.m_recycleBin)

\* C16 as claimed: once the recycle Group has been destroyed, a recycleEntry or
\* recycleGroup call with recycling enabled treats the Metadata's reference as
\* absent: it creates a new recycle Group under the root, the object is owned
\* by that new Group afterwards and is never moved into the destroyed one.
C16_WeakRecycleBinReference ==
    [][(lastOp'.op \in {"recycleEntry", "recycleGroup"} /\ tree.recycleBinEnabled
            /\ BinDestroyed(tree)) =>
        /\ \A e \in EntryIds : RecycleEntryOf(e) =>
              /\ ~aborted'
              /\ BinCreated(tree, tree')
              /\ tree'.entries[e].group = tree'.m_recycleBin
              /\ tree'.entries[e].group # tree.m_recycleBin
        /\ \A g \in GroupIds : RecycleGroupOf(g) =>
              /\ ~aborted'
              /\ BinCreated(tree, tree')
              /\ tree'.groups[g].parent = tree'.m_recycleBin
              /\ tree'.groups[g].parent # tree.m_recycleBin]_vars

\* The statement of C16 holds of every call made while m_rootGroup points to a
\* Group that exists.
WeakRecycleBinReferenceGivenRoot ==
    [][(lastOp'.op \in {"recycleEntry", "recycleGroup"} /\ tree.recycleBinEnabled
            /\ BinDestroyed(tree) /\ GroupLive(tree, tree.m_rootGroup)) =>
        /\ \A e \in EntryIds : RecycleEntryOf(e) =>
              /\ ~aborted'
              /\ BinCreated(tree, tree')
              /\ tree'.entries[e].group = tree'.m_recycleBin
              /\ tree'.entries[e].group # tree.m_recycleBin
        /\ \A g \in GroupIds : RecycleGroupOf(g) =>
              /\ ~aborted'
              /\ BinCreated(tree, tree')
              /\ tree'.groups[g].parent = tree'.m_recycleBin
              /\ tree'.groups[g].parent # tree.m_recycleBin]_vars

\* a state in which the case of C16 has happened: the first recycle Group was
\* destroyed, and an Entry is in a second one, a child of the root.
WeakRecycleBinReferenceReached ==
    /\ lastOp.op = "recycleEntry"
    /\ GroupLive(tree, tree.m_rootGroup)
    /\ recycleBin(tree) # Q_NULLPTR
    /\ tree.groups[recycleBin(tree)].parent = tree.m_rootGroup
    /\ tree.groups[recycleBin(tree)].entries # <<>>
    /\ \E g \in GroupIds \ {recycleBin(tree)} : tree.groups[g].state = "dead"

\* C17 as claimed: resolveEntry and resolveGroup terminate for every identity
\* in every reachable state.
C17_ResolveTerminates ==
    ~aborted =>
        \A uuid \in Uuids :
            /\ Diverges \notin resolveEntry(tree, uuid)
            /\ Diverges \notin resolveGroup(tree, uuid)

(***************************************************************************)
(* Implicit claims about the key manager.                                  *)
(***************************************************************************)

\* C18: in every reachable state in which hasKey() is true,
\* transformedMasterKey() is key().transform(transformSeed(), transformRounds()),
\* whatever calls of setKey (either overload), setTransformRounds, setCipher
\* and setCompressionAlgo led there; and hasKey(), once true, stays true.
C18_TransformedKeyConsistent ==
    [][/\ m_hasKey => m_hasKey'
       /\ m_hasKey' =>
            m_transformedMasterKey' =
                transform(m_key', m_transformSeed', m_transformRounds')]_vars

\* C18 witness: a key is set, the round count and the cipher are no longer
\* the constructor's, and the compression was set last.
C18_Witness ==
    /\ ~aborted
    /\ m_hasKey
    /\ lastOp.op = "setCompressionAlgo"
    /\ m_compressionAlgo # CompressionGZip
    /\ m_cipher # CIPHER_AES
    /\ m_transformRounds # DefaultTransformRounds
    /\ m_transformedMasterKey = transform(m_key, m_transformSeed, m_transformRounds)

\* C20: on a Database with no key set, setTransformRounds(r) with r different
\* from the current count changes only the count: hasKey() stays false, the
\* secret, the seed and the transformed key stay unset, the master-key-changed
\* time and the timer are unchanged and no modifiedImmediate is raised; the
\* first setKey afterwards derives the key with the count then current.
C20_RoundsOnlyWithoutKey ==
    [][/\ \A r \in RoundsArgs :
            (~m_hasKey /\ r # m_transformRounds /\ SetTransformRoundsTo(r)) =>
                /\ m_transformRounds' = r
                /\ ~m_hasKey'
                /\ m_key' = EmptyKey
                /\ m_transformSeed' = EmptySeed
                /\ m_transformedMasterKey' = EmptyByteArray
                /\ UNCHANGED <<masterKeyChanged, m_timer, m_emitModified, burst>>
                /\ lastOp'.signals = <<>>
       /\ (~m_hasKey /\ (SetKey \/ SetKeyWithSeed)) =>
            /\ m_transformRounds' = m_transformRounds
            /\ m_transformedMasterKey' =
                  transform(m_key', m_transformSeed', m_transformRounds)]_vars

\* C20 witness: setTransformRounds has changed the count of a Database that
\* has no key, while a timer was pending, and raised nothing.
C20_Witness ==
    /\ lastOp = Op("setTransformRounds", <<>>)
    /\ ~m_hasKey
    /\ m_transformRounds # DefaultTransformRounds
    /\ m_key = EmptyKey
    /\ m_transformedMasterKey = EmptyByteArray
    /\ m_timer.active
    /\ now > burst.last

====
